---- MODULE Spec2Model ----
(***************************************************************************)
(* Model of src/app.py, the inventory adjustment allocation tool.          *)
(*                                                                         *)
(* Quantities are fixed-point integers counted in units of 0.000001, so    *)
(* the tolerance 0.000001 of the allocation loop is the integer 1.         *)
(* A location is a sequence of one-character strings; the empty sequence   *)
(* stands for NaN, which is what read_csv makes of an empty field.         *)
(***************************************************************************)
EXTENDS Integers, Sequences, FiniteSets

VARIABLES df_adj, df_inv, index, processed_items, results, remaining_target,
          df_result, total_rows, status

vars == <<df_adj, df_inv, index, processed_items, results, remaining_target,
          df_result, total_rows, status>>

----------------------------------------------------------------------------
(* Bounds of the model *)

MaxLots == 3
GenLots == 2
MaxReqs == 2
MaxQty == 5
MaxTarget == 7

(* Program constant: 0.000001 in units of 0.000001 *)
EPS == 1

NaN == <<>>
PRD == <<"P", "R", "D">>

Items == {"A", "B"}

Locs == {NaN, <<" ">>, <<"P", "R", "x", "D">>, <<"x", "p", "R", "d">>}

GenQtys == {2, 5}
GenTargets == {2, 12}

QtySet == (-2)..MaxQty
TargetSet == (-2)..MaxTarget

(* The lots of the inventory of Spec: every item, location and quantity. *)
GenLotSet == [item : Items, loc : Locs, qty : GenQtys]

(* The lots of the inventory of SpecAlloc: lots of one item, eligible ones  *)
(* of every quantity and a production lot of the largest quantity.          *)
AllocLotSet ==
    [item : {"A"}, loc : {NaN}, qty : QtySet]
        \cup [item : {"A"}, loc : {PRD}, qty : {MaxQty}]

----------------------------------------------------------------------------
(* Generic helpers *)

RECURSIVE SumSeq(_)
SumSeq(s) == IF s = <<>> THEN 0 ELSE Head(s) + SumSeq(Tail(s))

Min(a, b) == IF a <= b THEN a ELSE b

Abs(a) == IF a < 0 THEN 0 - a ELSE a

Indices(s) == [i \in 1..Len(s) |-> i]

----------------------------------------------------------------------------
(* is_prd: str(loc).upper() contains 'PRD', and NaN is never PRD *)

upper(c) ==
    CASE c = "p" -> "P"
      [] c = "r" -> "R"
      [] c = "d" -> "D"
      [] c = "x" -> "X"
      [] OTHER -> c

str_upper(loc) == [i \in DOMAIN loc |-> upper(loc[i])]

contains(s, sub) ==
    \E i \in 0..(Len(s) - Len(sub)) : SubSeq(s, i + 1, i + Len(sub)) = sub

isna(loc) == loc = NaN

is_prd_case_sensitive(loc) ==
    IF isna(loc) THEN FALSE ELSE contains(loc, PRD)

is_prd(loc) ==
    IF isna(loc) THEN FALSE ELSE contains(str_upper(loc), PRD)

----------------------------------------------------------------------------
(* inv_grouped: the row labels of df_inv of one item, in input order *)

get_group(item) == SelectSeq(Indices(df_inv), LAMBDA i : df_inv[i].item = item)

in_groups(item) == get_group(item) # <<>>

prd_rows_none(item_inv) == <<>>

prd_rows(item_inv) == SelectSeq(item_inv, LAMBDA i : is_prd(df_inv[i].loc))

non_prd_rows(item_inv) == SelectSeq(item_inv, LAMBDA i : ~is_prd(df_inv[i].loc))

(* sort_values(by='Sum of Physical inventory', ascending=True) with the     *)
(* default kind='quicksort', which is not stable: every ordering of the     *)
(* rows that is ascending by quantity is a possible outcome.                *)
Ascending(p) ==
    \A i \in 1..(Len(p) - 1) : df_inv[p[i]].qty <= df_inv[p[i + 1]].qty

(* The row labels rows without its k-th element. *)
Without(rows, k) == SubSeq(rows, 1, k - 1) \o SubSeq(rows, k + 1, Len(rows))

(* Every ordering of the row labels rows. *)
RECURSIVE Perms(_)
Perms(rows) ==
    IF rows = <<>> THEN {<<>>}
    ELSE UNION {{<<rows[k]>> \o p : p \in Perms(Without(rows, k))} : k \in DOMAIN rows}

sort_values(rows) == {p \in Perms(rows) : Ascending(p)}

----------------------------------------------------------------------------
(* One pass of the allocation loop body: the three branches *)

branch_partial_as_full(remaining, qty) ==
    IF remaining <= EPS
    THEN [indicator |-> 0, allocated |-> 0, remaining |-> remaining]
    ELSE IF qty <= remaining + EPS
    THEN [indicator |-> 1, allocated |-> qty, remaining |-> remaining - qty]
    ELSE [indicator |-> 2, allocated |-> qty, remaining |-> 0]

branch_keep_remaining(remaining, qty) ==
    IF remaining <= EPS
    THEN [indicator |-> 0, allocated |-> 0, remaining |-> remaining]
    ELSE IF qty <= remaining + EPS
    THEN [indicator |-> 1, allocated |-> qty, remaining |-> remaining - qty]
    ELSE [indicator |-> 2, allocated |-> remaining, remaining |-> remaining]

branch_strict(remaining, qty) ==
    IF remaining <= EPS
    THEN [indicator |-> 0, allocated |-> 0, remaining |-> remaining]
    ELSE IF qty < remaining
    THEN [indicator |-> 1, allocated |-> qty, remaining |-> remaining - qty]
    ELSE [indicator |-> 2, allocated |-> remaining, remaining |-> 0]

branch_flipped(remaining, qty) ==
    IF remaining <= EPS
    THEN [indicator |-> 0, allocated |-> 0, remaining |-> remaining]
    ELSE IF qty >= remaining + EPS
    THEN [indicator |-> 1, allocated |-> qty, remaining |-> remaining - qty]
    ELSE [indicator |-> 2, allocated |-> remaining, remaining |-> 0]

branch(remaining, qty) ==
    IF remaining <= EPS
    THEN [indicator |-> 0, allocated |-> 0, remaining |-> remaining]
    ELSE IF qty <= remaining + EPS
    THEN [indicator |-> 1, allocated |-> qty, remaining |-> remaining - qty]
    ELSE [indicator |-> 2, allocated |-> remaining, remaining |-> 0]

(* The dict appended to results; idx is the row label of iterrows, kept to  *)
(* tell apart lots that agree on every column.                              *)
result_row(i, indicator, allocated) ==
    [item |-> df_inv[i].item, loc |-> df_inv[i].loc, batch |-> df_inv[i].batch,
     qty |-> df_inv[i].qty, indicator |-> indicator,
     allocated |-> IF indicator # 0 THEN allocated ELSE 0, idx |-> i]

(* for idx, inv_row in non_prd_rows.iterrows(): rows appended, and the      *)
(* value remaining_target has after the loop.                               *)
RECURSIVE allocate_non_prd(_, _)
allocate_non_prd(rows, remaining) ==
    IF rows = <<>>
    THEN [rows |-> <<>>, remaining |-> remaining]
    ELSE LET b == branch(remaining, df_inv[Head(rows)].qty)
             rest == allocate_non_prd(Tail(rows), b.remaining)
         IN  [rows |-> <<result_row(Head(rows), b.indicator, b.allocated)>> \o rest.rows,
              remaining |-> rest.remaining]

(* for idx, inv_row in prd_rows.iterrows() *)
allocate_prd(rows) == [k \in 1..Len(rows) |-> result_row(rows[k], 0, 0)]

----------------------------------------------------------------------------
(* df_result.sort_values(by=[item, indicator, qty], ascending=[T, F, T]):   *)
(* a sort on several keys is a stable lexicographic sort.                   *)

ItemRank(item) == IF item = "A" THEN 1 ELSE 2

key_le(a, b) ==
    \/ ItemRank(a.item) < ItemRank(b.item)
    \/ /\ a.item = b.item
       /\ \/ a.indicator > b.indicator
          \/ /\ a.indicator = b.indicator
             /\ a.qty <= b.qty

RECURSIVE insert_row(_, _)
insert_row(s, r) ==
    IF s = <<>> THEN <<r>>
    ELSE IF key_le(s[Len(s)], r) THEN Append(s, r)
    ELSE Append(insert_row(SubSeq(s, 1, Len(s) - 1), r), s[Len(s)])

RECURSIVE sort_result(_)
sort_result(s) ==
    IF s = <<>> THEN <<>>
    ELSE insert_row(sort_result(SubSeq(s, 1, Len(s) - 1)), s[Len(s)])

----------------------------------------------------------------------------
(* Inputs *)

with_batch(f) ==
    [i \in DOMAIN f |-> [item |-> f[i].item, loc |-> f[i].loc,
                         batch |-> i, qty |-> f[i].qty]]

(* The inventory table: up to n lots, the batch number of a lot being its  *)
(* position in the file.                                                    *)
Inventory(lots, n) ==
    \E k \in 0..n :
        \E f \in [1..k -> lots] :
            df_inv = with_batch(f)

(* The adjustment table: lo to hi requests. *)
Requests(items, targets, lo, hi) ==
    \E k \in lo..hi : df_adj \in [1..k -> [item : items, target : targets]]

Start ==
    /\ index = 1
    /\ processed_items = {}
    /\ results = <<>>
    /\ remaining_target = 0
    /\ df_result = <<>>
    /\ total_rows = -1
    /\ status = "running"

Init ==
    /\ Requests(Items, GenTargets, 0, MaxReqs)
    /\ Inventory(GenLotSet, GenLots)
    /\ Start

InitAlloc ==
    /\ Requests({"A"}, TargetSet, 1, 1)
    /\ Inventory(AllocLotSet, MaxLots)
    /\ Start

----------------------------------------------------------------------------
(* Actions *)

seen_never(item) == FALSE

seen(item) == item \in processed_items

(* One iteration of `for index, row in df_adj.iterrows()` *)
ProcessRow ==
    /\ status = "running"
    /\ index <= Len(df_adj)
    /\ LET item == df_adj[index].item
           target_adj == df_adj[index].target
           item_inv == get_group(item)
       IN  IF seen(item)
           THEN UNCHANGED <<processed_items, results, remaining_target>>
           ELSE /\ processed_items' = processed_items \cup {item}
                /\ IF in_groups(item)
                   THEN \E sorted \in sort_values(non_prd_rows(item_inv)) :
                          LET a == allocate_non_prd(sorted, target_adj)
                          IN  /\ results' = results \o a.rows \o allocate_prd(prd_rows(item_inv))
                              /\ remaining_target' = a.remaining
                   ELSE UNCHANGED <<results, remaining_target>>
    /\ index' = index + 1
    /\ UNCHANGED <<df_adj, df_inv, df_result, total_rows, status>>

(* After the loop: pd.DataFrame(results), the sort and the row count. An    *)
(* empty results list gives a frame without columns, and sort_values raises *)
(* KeyError, which the except handler reports with st.error.                *)
Assemble ==
    /\ status = "running"
    /\ index > Len(df_adj)
    /\ IF results = <<>>
       THEN /\ status' = "error"
            /\ UNCHANGED <<df_result, total_rows>>
       ELSE /\ df_result' = sort_result(results)
            /\ total_rows' = Len(results)
            /\ status' = "ok"
    /\ UNCHANGED <<df_adj, df_inv, index, processed_items, results, remaining_target>>

Next == ProcessRow \/ Assemble

Spec == Init /\ [][Next]_vars

SpecAlloc == InitAlloc /\ [][Next]_vars

----------------------------------------------------------------------------
(* Vocabulary of the properties *)

(* The exclusion rule as the specification words it: the location,         *)
(* upper-cased, contains "PRD".                                             *)
Excluded(loc) == contains(str_upper(loc), PRD)

Blank(loc) == loc = NaN \/ loc = <<" ">>

(* The request rows already iterated over. *)
Processed(item) == \E i \in 1..(index - 1) : df_adj[i].item = item

Requested(item) == \E i \in DOMAIN df_adj : df_adj[i].item = item

FirstRequest(item) ==
    CHOOSE i \in DOMAIN df_adj :
        /\ df_adj[i].item = item
        /\ \A j \in 1..(i - 1) : df_adj[j].item # item

FirstTarget(item) == df_adj[FirstRequest(item)].target

LotsOfItem(item) == SelectSeq(Indices(df_inv), LAMBDA i : df_inv[i].item = item)

EligibleLots(item) ==
    SelectSeq(Indices(df_inv),
              LAMBDA i : df_inv[i].item = item /\ ~Excluded(df_inv[i].loc))

OnHand(item) ==
    LET e == EligibleLots(item) IN SumSeq([k \in DOMAIN e |-> df_inv[e[k]].qty])

TotalQty(item) ==
    LET e == LotsOfItem(item) IN SumSeq([k \in DOMAIN e |-> df_inv[e[k]].qty])

ItemRows(rows, item) == SelectSeq(rows, LAMBDA r : r.item = item)

(* The eligible output rows of an item, in the order the loop emitted them. *)
EligibleRows(item) ==
    SelectSeq(results, LAMBDA r : r.item = item /\ ~Excluded(r.loc))

AllocatedSum(rows) == SumSeq([k \in DOMAIN rows |-> rows[k].allocated])

Count(rows, ind) == Len(SelectSeq(rows, LAMBDA r : r.indicator = ind))

(* The remaining target when the loop reaches the k-th eligible row. *)
RemainingAt(rows, k, target) == target - AllocatedSum(SubSeq(rows, 1, k - 1))

Allocating(item) == Processed(item) /\ EligibleLots(item) # <<>>

----------------------------------------------------------------------------
(* C1. Conservation as claimed: for every requested item with an eligible  *)
(* lot and every target, the allocated quantities of its eligible rows sum  *)
(* to min(target, eligible on-hand total), within the tolerance. Stated     *)
(* here for the inventories without a negative quantity, where it already   *)
(* fails.                                                                   *)
C1_ConservationAnyTarget ==
    \A item \in Items :
        (Allocating(item) /\ \A i \in DOMAIN df_inv : df_inv[i].qty >= 0) =>
            Abs(AllocatedSum(EligibleRows(item))
                - Min(FirstTarget(item), OnHand(item))) <= EPS

(* C1, amended. For a target above the tolerance the allocated quantities   *)
(* of the eligible rows sum to min(target, eligible on-hand total) within   *)
(* the tolerance; for a target at or below the tolerance they sum to 0.     *)
C1_Conservation ==
    \A item \in Items :
        Allocating(item) =>
            IF FirstTarget(item) > EPS
            THEN Abs(AllocatedSum(EligibleRows(item))
                     - Min(FirstTarget(item), OnHand(item))) <= EPS
            ELSE AllocatedSum(EligibleRows(item)) = 0

C1_Witness ==
    /\ Allocating("A")
    /\ \A i \in DOMAIN df_inv : df_inv[i].qty > 0
    /\ FirstTarget("A") > EPS
    /\ FirstTarget("A") < OnHand("A")
    /\ Count(EligibleRows("A"), 1) >= 1
    /\ Count(EligibleRows("A"), 2) = 1
    /\ AllocatedSum(EligibleRows("A")) = FirstTarget("A")

----------------------------------------------------------------------------
(* C2. Exclusion invariance: a lot whose upper-cased location contains     *)
(* "PRD" is emitted with indicator 0 and allocation 0 whatever the target,  *)
(* the target left after an item is the target less what its eligible rows  *)
(* took, and a lot with a missing or blank location is eligible: it is      *)
(* fully consumed when the target covers all the item's inventory.          *)
LastAllocated ==
    {i \in 1..(index - 1) :
        /\ FirstRequest(df_adj[i].item) = i
        /\ LotsOfItem(df_adj[i].item) # <<>>
        /\ \A j \in (i + 1)..(index - 1) :
              FirstRequest(df_adj[j].item) = j => LotsOfItem(df_adj[j].item) = <<>>}

C2_Exclusion ==
    /\ \A k \in DOMAIN results :
          Excluded(results[k].loc) =>
              results[k].indicator = 0 /\ results[k].allocated = 0
    /\ \A k \in DOMAIN df_result :
          Excluded(df_result[k].loc) =>
              df_result[k].indicator = 0 /\ df_result[k].allocated = 0
    /\ \A i \in LastAllocated :
          remaining_target =
              df_adj[i].target - AllocatedSum(EligibleRows(df_adj[i].item))
    /\ \A k \in DOMAIN results :
          (Blank(results[k].loc)
              /\ FirstTarget(results[k].item) >= TotalQty(results[k].item)) =>
              results[k].indicator = 1

C2_Witness ==
    /\ status = "ok"
    /\ \E k, m \in DOMAIN df_result :
          /\ Excluded(df_result[k].loc)
          /\ df_result[k].loc # str_upper(df_result[k].loc)
          /\ df_result[m].item = df_result[k].item
          /\ Blank(df_result[m].loc)
          /\ df_result[m].indicator = 1
          /\ FirstTarget(df_result[k].item) > TotalQty(df_result[k].item)

----------------------------------------------------------------------------
(* C3. Full-closure maximality: the loop run on an item's eligible lots in *)
(* descending quantity order never closes more lots (indicator 1) than the  *)
(* program's run on them did.                                               *)
Descending(p) ==
    \A i \in 1..(Len(p) - 1) : df_inv[p[i]].qty >= df_inv[p[i + 1]].qty

DescendingOrders(item) == {p \in Perms(EligibleLots(item)) : Descending(p)}

C3_Maximality ==
    \A item \in Items :
        Allocating(item) =>
            \A d \in DescendingOrders(item) :
                Count(allocate_non_prd(d, FirstTarget(item)).rows, 1)
                    <= Count(EligibleRows(item), 1)

C3_Witness ==
    /\ Allocating("A")
    /\ \A i \in DOMAIN df_inv : df_inv[i].qty > 0
    /\ Count(EligibleRows("A"), 1) = 2
    /\ \E d \in DescendingOrders("A") :
          Count(allocate_non_prd(d, FirstTarget("A")).rows, 1) = 0

----------------------------------------------------------------------------
(* C4. At most one partial, as claimed: the eligible rows are processed in *)
(* ascending quantity order, at most one row of an item has indicator 2,    *)
(* and the first lot reached with a positive remaining target smaller than  *)
(* its quantity gets indicator 2 and the remaining target, every later lot  *)
(* indicator 0.                                                             *)
FirstShort(rows, k, target, tol) ==
    /\ RemainingAt(rows, k, target) > tol
    /\ rows[k].qty > RemainingAt(rows, k, target) + tol
    /\ \A j \in 1..(k - 1) :
          ~(/\ RemainingAt(rows, j, target) > tol
            /\ rows[j].qty > RemainingAt(rows, j, target) + tol)

PartialAt(rows, target, tol) ==
    /\ \A k \in 1..(Len(rows) - 1) : rows[k].qty <= rows[k + 1].qty
    /\ Count(rows, 2) <= 1
    /\ \A k \in DOMAIN rows :
          FirstShort(rows, k, target, tol) =>
              /\ rows[k].indicator = 2
              /\ rows[k].allocated = RemainingAt(rows, k, target)
              /\ \A j \in (k + 1)..Len(rows) : rows[j].indicator = 0

C4_PartialWhenPositive ==
    \A item \in Items :
        Allocating(item) => PartialAt(EligibleRows(item), FirstTarget(item), 0)

(* C4, amended. The same with the tolerance: the partial lot is the first   *)
(* one reached with a remaining target above 0.000001 whose quantity        *)
(* exceeds the remaining target by more than 0.000001.                      *)
C4_AtMostOnePartial ==
    \A item \in Items :
        Allocating(item) => PartialAt(EligibleRows(item), FirstTarget(item), EPS)

C4_Witness ==
    /\ Allocating("A")
    /\ \A i \in DOMAIN df_inv : df_inv[i].qty > 0
    /\ Len(EligibleRows("A")) = 3
    /\ EligibleRows("A")[1].indicator = 1
    /\ EligibleRows("A")[2].indicator = 2
    /\ EligibleRows("A")[3].indicator = 0
    /\ FirstShort(EligibleRows("A"), 2, FirstTarget("A"), EPS)

----------------------------------------------------------------------------
(* C5. Every output row has an indicator in {0, 1, 2} and an allocation    *)
(* consistent with it: 0 for indicator 0, the original quantity for         *)
(* indicator 1, strictly between 0 and the original quantity for 2.         *)
Consistent(r) ==
    /\ r.indicator \in {0, 1, 2}
    /\ r.indicator = 0 => r.allocated = 0
    /\ r.indicator = 1 => r.allocated = r.qty
    /\ r.indicator = 2 => 0 < r.allocated /\ r.allocated < r.qty

C5_IndicatorConsistent ==
    /\ \A k \in DOMAIN results : Consistent(results[k])
    /\ \A k \in DOMAIN df_result : Consistent(df_result[k])

C5_Witness ==
    /\ status = "ok"
    /\ \E i, j, k \in DOMAIN df_result :
          /\ df_result[i].indicator = 1 /\ df_result[i].qty > 0
          /\ df_result[j].indicator = 2
          /\ df_result[k].indicator = 0 /\ ~Excluded(df_result[k].loc)

----------------------------------------------------------------------------
(* C6. Output coverage: every lot of an item whose request has been        *)
(* processed is in the output exactly once with its item, location, batch   *)
(* and quantity, no other lot is, and the total-rows count of a completed   *)
(* run is the number of lots of requested items.                            *)
RowsFor(rows, i) == {k \in DOMAIN rows : rows[k].idx = i}

Covers(rows, i) ==
    /\ Cardinality(RowsFor(rows, i)) = 1
    /\ \A k \in RowsFor(rows, i) :
          /\ rows[k].item = df_inv[i].item
          /\ rows[k].loc = df_inv[i].loc
          /\ rows[k].batch = df_inv[i].batch
          /\ rows[k].qty = df_inv[i].qty

C6_Coverage ==
    /\ \A i \in DOMAIN df_inv :
          IF Processed(df_inv[i].item)
          THEN Covers(results, i)
          ELSE RowsFor(results, i) = {}
    /\ status = "ok" =>
          /\ \A i \in DOMAIN df_inv :
                IF Requested(df_inv[i].item)
                THEN Covers(df_result, i)
                ELSE RowsFor(df_result, i) = {}
          /\ total_rows = Len(df_result)
          /\ total_rows = Cardinality({i \in DOMAIN df_inv : Requested(df_inv[i].item)})

C6_Witness ==
    /\ status = "ok"
    /\ total_rows = 1
    /\ Len(df_inv) = 2
    /\ \E i \in DOMAIN df_inv :
          /\ Excluded(df_inv[i].loc)
          /\ Covers(df_result, i)
    /\ \E i \in DOMAIN df_inv : ~Requested(df_inv[i].item)

----------------------------------------------------------------------------
(* C7. Missing inventory is a silent skip: a run with requests, whatever   *)
(* inventory they find, completes without reporting an error.               *)
C7_SilentSkip ==
    (Len(df_adj) > 0 /\ status # "running") => status = "ok"

----------------------------------------------------------------------------
(* C8. Duplicate requests, first-seen wins: once an item's first request   *)
(* is processed its lots have one output row each and the allocation of     *)
(* the first request's target, whatever later requests for it are           *)
(* processed, and a run that emitted rows reports no error.                 *)
C8_FirstSeenWins ==
    /\ \A item \in Items :
          Processed(item) =>
              /\ Len(ItemRows(results, item)) = Len(LotsOfItem(item))
              /\ EligibleLots(item) # <<>> =>
                    Abs(AllocatedSum(ItemRows(results, item))
                        - Min(FirstTarget(item), OnHand(item))) <= EPS
    /\ status = "error" => results = <<>>

C8_Witness ==
    /\ status = "ok"
    /\ Len(df_adj) >= 2
    /\ df_adj[1].item = df_adj[2].item
    /\ df_adj[1].target < df_adj[2].target
    /\ OnHand(df_adj[1].item) > df_adj[1].target
    /\ AllocatedSum(ItemRows(df_result, df_adj[1].item)) = df_adj[1].target

----------------------------------------------------------------------------
(* C9. Stable smallest-first order: eligible lots of one item with equal   *)
(* quantity are consumed in their input order.                              *)
C9_StableOrder ==
    \A i, j \in DOMAIN df_inv :
        (/\ i < j
         /\ df_inv[i].item = df_inv[j].item
         /\ df_inv[i].qty = df_inv[j].qty
         /\ ~Excluded(df_inv[i].loc)
         /\ ~Excluded(df_inv[j].loc)
         /\ Processed(df_inv[i].item)) =>
            \A k \in RowsFor(results, i), m \in RowsFor(results, j) :
                /\ k < m
                /\ results[k].allocated >= results[m].allocated

----------------------------------------------------------------------------
(* C10. Negative allocation is never emitted: no output row has a negative *)
(* allocated quantity.                                                      *)
C10_NoNegativeAllocation ==
    /\ \A k \in DOMAIN results : results[k].allocated >= 0
    /\ \A k \in DOMAIN df_result : df_result[k].allocated >= 0

====
